---------------------------- MODULE Spec2Model ----------------------------
(***************************************************************************)
(* Zoota AI Assistant backend (PythonBackend/app.py): language detection,  *)
(* training-data retrieval, system-prompt composition, canned responses    *)
(* and the /api/chat request handler.                                      *)
(*                                                                         *)
(* Text is a sequence of characters.  A character is a one-letter string;  *)
(* the non-ASCII letters are written by name:                              *)
(*   "c_ced" = c-cedilla, "g_breve" = g-breve, "i_dotless" = dotless i,    *)
(*   "o_uml" = o-umlaut, "s_ced" = s-cedilla, "u_uml" = u-umlaut,          *)
(*   "S_CED" = capital s-cedilla, "I_DOT" = capital dotted I (U+0130),     *)
(*   "dot_above" = combining dot above (U+0307).                           *)
(* A fixed literal of the program (a canned answer, a prompt directive) is *)
(* one element of a text, written in ASCII.                                *)
(***************************************************************************)
EXTENDS Integers, Sequences, FiniteSets, TLC

VARIABLES
    config,          \* app.py:27   parsed appsettings.json, or not loaded
    azure_client,    \* app.py:28   TRUE iff the model client was created
    db_connection,   \* app.py:29   TRUE iff the database handle was created
    pc,              \* position of the request being handled by chat()
    data,            \* the JSON body of the request
    user_message,    \* chat(): the trimmed message
    enhanced_prompt, \* chat(): the composed system prompt
    messages,        \* chat(): the message sequence built for the model
    exc,             \* the exception caught by chat()'s inner handler
    response,        \* the HTTP response of the request
    calls,           \* collaborators invoked while handling the request
    db_answer,       \* what the database answered to this request
    model_answer,    \* what the model call answered to this request
    fn_arg,          \* argument of the last direct function call
    fn_ret           \* its result

vars == <<config, azure_client, db_connection, pc, data, user_message,
          enhanced_prompt, messages, exc, response, calls, db_answer,
          model_answer, fn_arg, fn_ret>>

-----------------------------------------------------------------------------
(* Bounds of the model.                                                    *)

\* Longest input of detect_language, in pieces of DetectPieces.
MaxPieces == 3

-----------------------------------------------------------------------------
(* Python strings.                                                         *)

AsciiLower == {"a","b","c","d","e","f","g","h","i","j","k","l","m","n","o",
               "p","q","r","s","t","u","v","w","x","y","z"}
AsciiUpper == {"A","B","C","D","E","F","G","H","I","J","K","L","M","N","O",
               "P","Q","R","S","T","U","V","W","X","Y","Z"}
Digits     == {"0","1","2","3","4","5","6","7","8","9"}
TurkishLower == {"c_ced", "g_breve", "i_dotless", "o_uml", "s_ced", "u_uml"}
Whitespace == {" ", "\t", "\n"}

ToLowerAscii ==
    [c \in AsciiUpper |->
        CASE c = "A" -> "a" [] c = "B" -> "b" [] c = "C" -> "c" [] c = "D" -> "d"
          [] c = "E" -> "e" [] c = "F" -> "f" [] c = "G" -> "g" [] c = "H" -> "h"
          [] c = "I" -> "i" [] c = "J" -> "j" [] c = "K" -> "k" [] c = "L" -> "l"
          [] c = "M" -> "m" [] c = "N" -> "n" [] c = "O" -> "o" [] c = "P" -> "p"
          [] c = "Q" -> "q" [] c = "R" -> "r" [] c = "S" -> "s" [] c = "T" -> "t"
          [] c = "U" -> "u" [] c = "V" -> "v" [] c = "W" -> "w" [] c = "X" -> "x"
          [] c = "Y" -> "y" [] c = "Z" -> "z"]

\* str.lower() of one character: "I" gives "i" (never the dotless i), and the
\* capital dotted I gives two characters, "i" and the combining dot above.
LowerChar(c) ==
    IF c \in AsciiUpper THEN <<ToLowerAscii[c]>>
    ELSE IF c = "S_CED" THEN <<"s_ced">>
    ELSE IF c = "I_DOT" THEN <<"i", "dot_above">>
    ELSE <<c>>

RECURSIVE Lower(_)
Lower(s) == IF s = <<>> THEN <<>> ELSE LowerChar(Head(s)) \o Lower(Tail(s))

RECURSIVE LStrip(_)
LStrip(s) == IF s # <<>> /\ Head(s) \in Whitespace THEN LStrip(Tail(s)) ELSE s

RECURSIVE RStrip(_)
RStrip(s) ==
    IF s # <<>> /\ s[Len(s)] \in Whitespace THEN RStrip(SubSeq(s, 1, Len(s) - 1))
    ELSE s

\* str.strip()
Strip(s) == RStrip(LStrip(s))

\* sub in s
Contains(s, sub) ==
    \E i \in 1..(Len(s) - Len(sub) + 1) : SubSeq(s, i, i + Len(sub) - 1) = sub

\* s.endswith(suffix)
EndsWith(s, suffix) ==
    /\ Len(suffix) <= Len(s)
    /\ SubSeq(s, Len(s) - Len(suffix) + 1, Len(s)) = suffix

\* \w of the re module on str: letters, digits and the underscore; a combining
\* mark, a space or punctuation is not a word character.
IsWordChar(c) ==
    c \in AsciiLower \cup AsciiUpper \cup Digits \cup TurkishLower
          \cup {"_", "S_CED", "I_DOT"}

RECURSIVE RunEnd(_, _)
RunEnd(s, i) == IF i < Len(s) /\ IsWordChar(s[i + 1]) THEN RunEnd(s, i + 1) ELSE i

\* set(re.findall(r'\b\w+\b', s)): the maximal runs of word characters.
FindWords(s) ==
    { SubSeq(s, i, RunEnd(s, i)) :
        i \in { k \in 1..Len(s) : /\ IsWordChar(s[k])
                                   /\ (k = 1 \/ ~IsWordChar(s[k - 1])) } }

-----------------------------------------------------------------------------
(* detect_language (app.py:227-273).                                       *)

turkish_chars == TurkishLower

strong_turkish_words ==
    { <<"m","e","r","h","a","b","a">>,
      <<"n","a","s","i_dotless","l">>,
      <<"n","e","d","i","r">>,
      <<"n","e","l","e","r","d","i","r">>,
      <<"h","a","k","k","i_dotless","n","d","a">>,
      <<"h","i","z","m","e","t","l","e","r","i","n","i","z">>,
      <<"c_ced","o_uml","z","u_uml","m","l","e","r","i","n","i","z">>,
      <<"d","a","n","i_dotless","s_ced","m","a","n","l","i_dotless","k">>,
      <<"m","i","s","i","n","i","z">>,
      <<"m","u","s","u","n","u","z">>,
      <<"m","i","y","i","m">> }

turkish_suffixes ==
    { <<"m","i","s","i","n","i","z">>,
      <<"m","u","s","u","n","u","z">>,
      <<"m","i","d","i","r">>,
      <<"m","u_uml","d","u_uml","r">>,
      <<"n","e","l","e","r","d","i","r">> }

\* A plausible slip: the character test placed before the length test.
detect_language_chars_first(text) ==
    LET text_lower == Strip(Lower(text))
        words == FindWords(text_lower)
    IN  IF \E i \in 1..Len(text_lower) : text_lower[i] \in turkish_chars THEN "tr"
        ELSE IF Len(text_lower) < 3 THEN "en"
        ELSE IF words \cap strong_turkish_words # {} THEN "tr"
        ELSE IF \E word \in words : \E suffix \in turkish_suffixes :
                    EndsWith(word, suffix) THEN "tr"
        ELSE "en"

\* A plausible slip: the character test left out.
detect_language_no_chars(text) ==
    LET text_lower == Strip(Lower(text))
        words == FindWords(text_lower)
    IN  IF Len(text_lower) < 3 THEN "en"
        ELSE IF words \cap strong_turkish_words # {} THEN "tr"
        ELSE IF \E word \in words : \E suffix \in turkish_suffixes :
                    EndsWith(word, suffix) THEN "tr"
        ELSE "en"

detect_language(text) ==
    LET text_lower == Strip(Lower(text))
        words == FindWords(text_lower)
    IN  IF Len(text_lower) < 3 THEN "en"
        ELSE IF \E i \in 1..Len(text_lower) : text_lower[i] \in turkish_chars THEN "tr"
        ELSE IF words \cap strong_turkish_words # {} THEN "tr"
        ELSE IF \E word \in words : \E suffix \in turkish_suffixes :
                    EndsWith(word, suffix) THEN "tr"
        ELSE "en"

-----------------------------------------------------------------------------
(* Values.  A JSON value of the configuration is a record with its kind    *)
(* ("absent": the key is missing, "null": present and null) and content.   *)

AbsentStr == [kind |-> "absent", text |-> <<>>]
NullStr   == [kind |-> "null", text |-> <<>>]
Str(t)    == [kind |-> "str", text |-> t]

AbsentList  == [kind |-> "absent", items |-> <<>>]
NullList    == [kind |-> "null", items |-> <<>>]
List(items) == [kind |-> "list", items |-> items]

KB(kind, services, website) ==
    [kind |-> kind, Services |-> services, Website |-> website]
EmptyKB  == KB("dict", AbsentList, AbsentStr)
AbsentKB == KB("absent", AbsentList, AbsentStr)
NullKB   == KB("null", AbsentList, AbsentStr)

Zoota(kind, prompt, kb) ==
    [kind |-> kind, SystemPrompt |-> prompt, KnowledgeBase |-> kb]
EmptyZoota  == Zoota("dict", AbsentStr, AbsentKB)
AbsentZoota == Zoota("absent", AbsentStr, AbsentKB)
NullZoota   == Zoota("null", AbsentStr, AbsentKB)

\* load_configuration (app.py:31-60) returns None when no file is found or
\* it cannot be parsed.
NoConfig     == [loaded |-> FALSE, Zoota |-> AbsentZoota]
Config(zoota) == [loaded |-> TRUE, Zoota |-> zoota]

\* dict.get(key, default): the default only when the key is missing.
Get(field, default) == IF field.kind = "absent" THEN default ELSE field

\* The result of a call: a value, or the exception it raised.
Ret(v)   == [raised |-> FALSE, error |-> "", value |-> v]
Raise(e) == [raised |-> TRUE, error |-> e, value |-> <<>>]

AttributeError_get == "'NoneType' object has no attribute 'get'"
TypeError_concat   == "unsupported operand type(s) for +=: 'NoneType' and 'str'"
TypeError_subscript == "'NoneType' object is not subscriptable"
TypeError_iterate  == "'NoneType' object is not iterable"
TypeError_slice    == "'int' object is not subscriptable"
AttributeError_msg == "'str' object has no attribute 'get'"
IndexError_choices == "list index out of range"

Take(s, n) == SubSeq(s, 1, IF Len(s) < n THEN Len(s) ELSE n)

RECURSIVE Join(_, _)
\* sep.join(parts)
Join(sep, parts) ==
    IF parts = <<>> THEN <<>>
    ELSE IF Len(parts) = 1 THEN parts[1]
    ELSE parts[1] \o sep \o Join(sep, Tail(parts))

-----------------------------------------------------------------------------
(* get_training_data_from_db (app.py:157-225).  A database answer is what  *)
(* the three queries return and the place, if any, where the driver raises *)
(* (1: cursor(), 2-4: the first, second, third query).                     *)

ContentPreviewLen  == 1000
ExperienceLen      == 500
TrainingContentLen == 500

PageBlock(row) ==
    <<"Page: ">> \o row.title \o <<"\nURL: ">> \o row.url \o <<"\n">>
        \o row.description \o <<"\n">> \o Take(row.content, ContentPreviewLen)

ProfileBlock(row) ==
    <<"\nLinkedIn Profile: ">> \o row.full_name \o <<"\nHeadline: ">> \o row.headline
        \o <<"\nLocation: ">> \o row.location
        \o <<"\nSummary: ">> \o (IF row.summary = <<>> THEN <<"N/A">> ELSE row.summary)
        \o <<"\nKey Skills: ">> \o (IF row.skills = <<>> THEN <<"N/A">> ELSE row.skills)
        \o <<"\nExperience: ">>
        \o (IF row.experience = <<>> THEN <<"N/A">>
            ELSE Take(row.experience, ExperienceLen))
        \o <<"\n">>

FactBlock(row) ==
    <<"[">> \o row.category \o <<"] ">> \o Take(row.content, TrainingContentLen)

\* The blocks collected from the rows, or the exception of the driver or of
\* content[:500] on a NULL content.
training_context(db) ==
    IF db.raises # 0 THEN Raise("pyodbc.Error")
    ELSE IF \E i \in 1..Len(db.facts) : db.facts[i].content_null
    THEN Raise(TypeError_subscript)
    ELSE Ret([i \in 1..Len(db.pages) |-> PageBlock(db.pages[i])]
                \o [i \in 1..Len(db.profile) |-> ProfileBlock(db.profile[i])]
                \o [i \in 1..Len(db.facts) |-> FactBlock(db.facts[i])])

\* A plausible slip: no try/except around the queries.
get_training_data_no_catch(db) ==
    IF ~db_connection THEN Ret(<<>>)
    ELSE LET context == training_context(db)
         IN  IF context.raised THEN context
             ELSE IF context.value # <<>>
             THEN Ret(Join(<<"\n\n---\n\n">>, context.value))
             ELSE Ret(<<>>)

\* None is Ret of the empty text: the function never returns an empty string.
get_training_data_from_db(db) ==
    IF ~db_connection THEN Ret(<<>>)
    ELSE LET context == training_context(db)
         IN  IF context.raised THEN Ret(<<>>)
             ELSE IF context.value # <<>>
             THEN Ret(Join(<<"\n\n---\n\n">>, context.value))
             ELSE Ret(<<>>)

-----------------------------------------------------------------------------
(* build_enhanced_system_prompt (app.py:275-307).                          *)

TurkishDirective ==
    <<"\n\nThe user is asking in TURKISH. You MUST respond COMPLETELY in Turkish. Do not mix languages.">>
EnglishDirective ==
    <<"\n\nThe user is asking in ENGLISH. You MUST respond in ENGLISH. This is the default language.">>
DefaultDirective ==
    <<"\n\nDEFAULT LANGUAGE: ENGLISH. Respond in English unless the user clearly uses Turkish.">>
TrainedOn ==
    <<"\n\nYou have been trained on the following information about OrkinosAI and its team:\n\n">>
UseThis ==
    <<"\n\nUse this information to provide accurate, specific, and helpful responses. Always cite the website or LinkedIn profile when relevant.">>

\* No user message: the argument's default, None.
NoMessage == [kind |-> "null", text |-> <<>>]

zoota_config_of(c) == IF c.loaded THEN Get(c.Zoota, EmptyZoota) ELSE EmptyZoota

\* The language directive appended to the base prompt (app.py:283-291).
language_directive_swapped(message) ==
    IF message.kind = "str" /\ message.text # <<>>
    THEN IF detect_language(message.text) = "tr"
         THEN EnglishDirective ELSE TurkishDirective
    ELSE DefaultDirective

language_directive(message) ==
    IF message.kind = "str" /\ message.text # <<>>
    THEN IF detect_language(message.text) = "tr"
         THEN TurkishDirective ELSE EnglishDirective
    ELSE DefaultDirective

\* The part before the database is read (app.py:279-291).
base_prompt_of(c, message) ==
    LET zoota_config == zoota_config_of(c)
    IN  IF zoota_config.kind = "null" THEN Raise(AttributeError_get)
        ELSE LET base_prompt == Get(zoota_config.SystemPrompt, Str(<<>>))
             IN  IF base_prompt.kind = "null" THEN Raise(TypeError_concat)
                 ELSE Ret(base_prompt.text \o language_directive(message))

build_enhanced_system_prompt(c, message, db) ==
    LET base == base_prompt_of(c, message)
    IN  IF base.raised THEN base
        ELSE LET training_data == get_training_data_from_db(db)
             IN  IF training_data.raised THEN training_data
                 ELSE IF training_data.value # <<>>
                 THEN Ret(base.value \o TrainedOn \o training_data.value \o UseThis)
                 ELSE base

-----------------------------------------------------------------------------
(* get_mock_response (app.py:309-381): the keywords of each branch, then   *)
(* the answers.                                                            *)

tr_greeting ==
    { <<"m","e","r","h","a","b","a">>,
      <<"s","e","l","a","m">>,
      <<"h","e","y">> }
tr_about ==
    { <<"o","r","k","i","n","o","s","a","i">>,
      <<"h","a","k","k","i_dotless","n","d","a">> }
tr_services ==
    { <<"h","i","z","m","e","t">>,
      <<"s","e","r","v","i","s">> }
tr_ai ==
    { <<"y","a","p","a","y"," ","z","e","k","a">>,
      <<"a","i">>,
      <<"m","a","k","i","n","e"," ","o_uml","g_breve","r","e","n","m","e","s","i">> }
tr_cloud ==
    { <<"a","z","u","r","e">>,
      <<"b","u","l","u","t">> }
tr_contact ==
    { <<"i","l","e","t","i","s_ced","i","m">>,
      <<"u","l","a","s_ced">>,
      <<"e","m","a","i","l">>,
      <<"t","e","l","e","f","o","n">> }
en_greeting ==
    { <<"h","e","l","l","o">>,
      <<"h","i">>,
      <<"h","e","y">> }
en_about ==
    { <<"o","r","k","i","n","o","s","a","i">>,
      <<"a","b","o","u","t">> }
en_services ==
    { <<"s","e","r","v","i","c","e">> }
en_web ==
    { <<"w","e","b">> }
en_web_kind ==
    { <<"d","e","v","e","l","o","p">>,
      <<"s","i","t","e">> }
en_ai ==
    { <<"a","i">>,
      <<"a","r","t","i","f","i","c","i","a","l"," ","i","n","t","e","l","l","i","g","e","n","c","e">>,
      <<"m","a","c","h","i","n","e"," ","l","e","a","r","n","i","n","g">> }
en_cloud ==
    { <<"a","z","u","r","e">>,
      <<"c","l","o","u","d">> }
en_sharepoint ==
    { <<"s","h","a","r","e","p","o","i","n","t">>,
      <<"m","i","c","r","o","s","o","f","t"," ","3","6","5">>,
      <<"m","3","6","5">> }
en_contact ==
    { <<"c","o","n","t","a","c","t">>,
      <<"r","e","a","c","h">>,
      <<"e","m","a","i","l">>,
      <<"p","h","o","n","e">> }

\* any(word in message_lower for word in words)
ContainsAny(message_lower, words) ==
    \E word \in words : Contains(message_lower, word)

TrGreeting == <<"Merhaba! Ben Zoota, yapay zeka asistaninizim. Su anda demo modunda calisiyorum. OrkinosAI hakkinda size nasil yardimci olabilirim?">>
TrAboutHead == <<"OrkinosAI, su alanlarda uzmanlasmis bir teknoloji danismanlik sirketidir:\n\n">>
TrAboutTail == <<"\n\nAzure, AI/ML ve modern web gelistirme konularinda uzmanliga sahip bir Microsoft Is Ortagiyiz.">>
TrServicesHead == <<"OrkinosAI kapsamli teknoloji hizmetleri sunmaktadir:\n\n">>
TrServicesTail == <<"\n\nHangi hizmet hakkinda daha fazla bilgi edinmek istersiniz?">>
TrAI == <<"Azure OpenAI, TensorFlow ve PyTorch kullanarak Yapay Zeka ve Makine Ogrenmesi cozumleri sunuyoruz. Uzmanlik alanlarimiz arasinda konusma yapay zekasi, ozel yapay zeka modelleri ve akilli otomasyon sistemleri bulunmaktadir. Isletmelerin yapay zeka gucunden yararlanmalarina yardimci oluyoruz.">>
TrCloud == <<"Azure Bulut Cozumlerinde uzmaniz! Bulut gecisi, mimari tasarim, DevOps ve surekli Azure yonetimi hizmetleri sunuyoruz. Microsoft Is Ortagi olarak, kuruluslarin Azure'un tum gucunden yararlanmalarina yardimci oluyoruz.">>
TrContactHead == <<"Bize web sitemiz ">>
TrContactTail == <<" uzerinden veya sitemizdeki iletisim formu araciligiyla ulasabilirsiniz. Teknoloji ihtiyaclariniz hakkinda konusmak isteriz!">>
TrDefault == <<"OrkinosAI'in hizmetleri, uzmanlik alanlari veya teknoloji cozumleri hakkinda size yardimci olmaktan mutluluk duyarim. Web gelistirme, AI/ML, Azure bulut, SharePoint/M365 veya diger hizmetlerimiz hakkinda soru sorabilirsiniz!">>

EnGreeting == <<"Hello! I'm Zoota, your AI assistant. I'm currently running in demo mode. How can I help you learn about OrkinosAI?">>
EnAboutHead == <<"OrkinosAI is a technology consultancy specializing in:\n\n">>
EnAboutTail == <<"\n\nWe're a Microsoft Partner with expertise in Azure, AI/ML, and modern web development.">>
EnServicesHead == <<"OrkinosAI offers comprehensive technology services:\n\n">>
EnServicesTail == <<"\n\nWhich service would you like to know more about?">>
EnWeb == <<"Yes! We specialize in web development using modern technologies like .NET, Blazor, React, and more. We build custom web applications, CMS solutions, and enterprise web platforms. We also offer web CMS solutions using Umbraco and custom frameworks.">>
EnAI == <<"We provide AI & Machine Learning solutions using Azure OpenAI, TensorFlow, and PyTorch. Our expertise includes conversational AI (like me!), custom AI models, intelligent automation, and AI-powered business solutions to help organizations leverage AI effectively.">>
EnCloud == <<"We're Azure experts! We offer cloud migration, architecture design, DevOps, security, and ongoing Azure management. As a Microsoft Partner, we help organizations move to Azure and optimize their cloud infrastructure for performance and cost.">>
EnSharePoint == <<"We provide comprehensive SharePoint and Microsoft 365 solutions including custom development, workflow automation, migration services, and integration with other systems. We help organizations maximize their Microsoft 365 investment.">>
EnContactHead == <<"You can reach OrkinosAI through our website at ">>
EnContactTail == <<" or use the contact form on our website. We'd love to discuss how we can help with your technology needs!">>
EnDefault == <<"I'd be happy to help you learn more about OrkinosAI's services, expertise, or technology solutions. Feel free to ask about our web development, AI/ML, Azure cloud, SharePoint/M365, or other services!">>

DefaultWebsite == <<"https://www.orkinosai.com">>

\* services[:5] of the about answers (app.py:328, 356).
AboutServices == 5

\* '\n'.join([f"* {s}" for s in services]) with the bullet character.
Bullets(services) ==
    Join(<<"\n">>, [i \in 1..Len(services) |-> <<"* ">> \o services[i]])

\* kb.get('Services', []) and its use; limit < 0 stands for no slice.
services_text(kb, limit) ==
    IF kb.kind = "null" THEN Raise(AttributeError_get)
    ELSE LET services == Get(kb.Services, List(<<>>))
         IN  IF services.kind = "null"
             THEN Raise(IF limit < 0 THEN TypeError_iterate ELSE TypeError_subscript)
             ELSE Ret(Bullets(IF limit < 0 THEN services.items
                              ELSE Take(services.items, limit)))

\* kb.get('Website', 'https://www.orkinosai.com')
website_of(kb) ==
    IF kb.kind = "null" THEN Raise(AttributeError_get)
    ELSE Ret(Get(kb.Website, Str(DefaultWebsite)).text)

\* head + (a text computed from kb) + tail
Fill(head, middle, tail) ==
    IF middle.raised THEN middle ELSE Ret(head \o middle.value \o tail)

turkish_response(message_lower, kb) ==
    IF ContainsAny(message_lower, tr_greeting) THEN Ret(TrGreeting)
    ELSE IF ContainsAny(message_lower, tr_about)
    THEN Fill(TrAboutHead, services_text(kb, AboutServices), TrAboutTail)
    ELSE IF ContainsAny(message_lower, tr_services)
    THEN Fill(TrServicesHead, services_text(kb, -1), TrServicesTail)
    ELSE IF ContainsAny(message_lower, tr_ai) THEN Ret(TrAI)
    ELSE IF ContainsAny(message_lower, tr_cloud) THEN Ret(TrCloud)
    ELSE IF ContainsAny(message_lower, tr_contact)
    THEN Fill(TrContactHead, website_of(kb), TrContactTail)
    ELSE Ret(TrDefault)

english_response(message_lower, kb) ==
    IF ContainsAny(message_lower, en_greeting) THEN Ret(EnGreeting)
    ELSE IF ContainsAny(message_lower, en_about)
    THEN Fill(EnAboutHead, services_text(kb, AboutServices), EnAboutTail)
    ELSE IF ContainsAny(message_lower, en_services)
    THEN Fill(EnServicesHead, services_text(kb, -1), EnServicesTail)
    ELSE IF ContainsAny(message_lower, en_web) /\ ContainsAny(message_lower, en_web_kind)
    THEN Ret(EnWeb)
    ELSE IF ContainsAny(message_lower, en_ai) THEN Ret(EnAI)
    ELSE IF ContainsAny(message_lower, en_cloud) THEN Ret(EnCloud)
    ELSE IF ContainsAny(message_lower, en_sharepoint) THEN Ret(EnSharePoint)
    ELSE IF ContainsAny(message_lower, en_contact)
    THEN Fill(EnContactHead, website_of(kb), EnContactTail)
    ELSE Ret(EnDefault)

get_mock_response(c, message) ==
    LET message_lower == Lower(message)
        is_turkish == detect_language(message) = "tr"
        zoota_config == zoota_config_of(c)
    IN  IF zoota_config.kind = "null" THEN Raise(AttributeError_get)
        ELSE LET kb == Get(zoota_config.KnowledgeBase, EmptyKB)
             IN  IF is_turkish THEN turkish_response(message_lower, kb)
                 ELSE english_response(message_lower, kb)

-----------------------------------------------------------------------------
(* chat (app.py:403-479).                                                  *)

\* conversation_history[-10:] (app.py:431).
HistoryWindow == 10

AbsentHistory == [kind |-> "absent", items |-> <<>>]
NullHistory   == [kind |-> "null", items |-> <<>>]
\* a history that is no list: a non-zero number
NumberHistory == [kind |-> "number", items |-> <<>>]

Body(message, history) == [message |-> message, history |-> history]
NoBody == Body(AbsentStr, AbsentHistory)

NoResponse == [status |-> 0, message |-> AbsentStr, source |-> "", error |-> AbsentStr]
ErrorResponse(status, text) ==
    [status |-> status, message |-> AbsentStr, source |-> "", error |-> Str(<<text>>)]
ChatResult(message, source, error) ==
    [status |-> 200, message |-> message, source |-> source, error |-> error]

NoCalls == [db |-> 0, model |-> 0, model_failed |-> 0, mock |-> 0]

\* A plausible slip: the message is not trimmed.
trimmed_message_no_strip(body) == Get(body.message, Str(<<>>)).text

\* data.get('message', '').strip()
trimmed_message(body) == Strip(Get(body.message, Str(<<>>)).text)

\* s[-n:]
LastN(s, n) == IF Len(s) <= n THEN s ELSE SubSeq(s, Len(s) - n + 1, Len(s))

ChatMessage(role, content) == [role |-> role, content |-> content]

\* msg.get('role', 'user'), msg.get('content', '')
forwarded(msg) ==
    ChatMessage(Get(msg.role, Str(<<"user">>)).text, Get(msg.content, Str(<<>>)).text)

\* A plausible slip: the first ten entries instead of the last ten.
conversation_messages_first(prompt, history, message) ==
    LET recent == Take(history.items, HistoryWindow)
    IN  IF history.kind = "number" THEN Raise(TypeError_slice)
        ELSE IF \E i \in 1..Len(recent) : recent[i].kind # "dict"
        THEN Raise(AttributeError_msg)
        ELSE Ret(<<ChatMessage(<<"system">>, prompt)>>
                    \o [i \in 1..Len(recent) |-> forwarded(recent[i])]
                    \o <<ChatMessage(<<"user">>, message)>>)

\* The message sequence for the model (app.py:425-438).  A history that is
\* missing, null or empty is skipped; slicing a number raises; so does
\* msg.get on an entry that is no object.
conversation_messages(prompt, history, message) ==
    LET recent == LastN(history.items, HistoryWindow)
    IN  IF history.kind = "number" THEN Raise(TypeError_slice)
        ELSE IF \E i \in 1..Len(recent) : recent[i].kind # "dict"
        THEN Raise(AttributeError_msg)
        ELSE Ret(<<ChatMessage(<<"system">>, prompt)>>
                    \o [i \in 1..Len(recent) |-> forwarded(recent[i])]
                    \o <<ChatMessage(<<"user">>, message)>>)

\* app.py:407-412: the message is empty after trimming.
chat_reject(body) ==
    /\ pc = "idle"
    /\ trimmed_message(body) = <<>>
    /\ data' = body
    /\ user_message' = <<>>
    /\ response' = ErrorResponse(400, "Message is required")
    /\ pc' = "done"
    /\ UNCHANGED <<config, azure_client, db_connection, enhanced_prompt, messages,
                   exc, calls, db_answer, model_answer, fn_arg, fn_ret>>

\* The outer handler (app.py:477-479) around a call of get_mock_response.
mock_result(r, source, error) ==
    IF r.raised THEN ErrorResponse(500, "Internal server error")
    ELSE ChatResult(Str(r.value), source, error)

\* app.py:407-417, 469-475: no model client.
chat_mock(body) ==
    /\ pc = "idle"
    /\ trimmed_message(body) # <<>>
    /\ ~azure_client
    /\ data' = body
    /\ user_message' = trimmed_message(body)
    /\ calls' = [calls EXCEPT !.mock = @ + 1]
    /\ response' = mock_result(get_mock_response(config, trimmed_message(body)),
                               "mock", AbsentStr)
    /\ pc' = "done"
    /\ UNCHANGED <<config, azure_client, db_connection, enhanced_prompt, messages,
                   exc, db_answer, model_answer, fn_arg, fn_ret>>

\* app.py:407-419: a model client is configured.
chat_begin(body) ==
    /\ pc = "idle"
    /\ trimmed_message(body) # <<>>
    /\ azure_client
    /\ data' = body
    /\ user_message' = trimmed_message(body)
    /\ pc' = "prompt"
    /\ UNCHANGED <<config, azure_client, db_connection, enhanced_prompt, messages,
                   exc, response, calls, db_answer, model_answer, fn_arg, fn_ret>>

\* app.py:422: the database answers db when it is asked.
build_prompt(db) ==
    /\ pc = "prompt"
    /\ LET asked == ~base_prompt_of(config, Str(user_message)).raised
           r == build_enhanced_system_prompt(config, Str(user_message), db)
       IN  /\ calls' = IF asked THEN [calls EXCEPT !.db = @ + 1] ELSE calls
           /\ db_answer' = IF asked /\ db_connection THEN db ELSE db_answer
           /\ IF r.raised
              THEN /\ exc' = <<r.error>>
                   /\ pc' = "except"
                   /\ UNCHANGED enhanced_prompt
              ELSE /\ enhanced_prompt' = r.value
                   /\ pc' = "messages"
                   /\ UNCHANGED exc
    /\ UNCHANGED <<config, azure_client, db_connection, data, user_message, messages,
                   response, model_answer, fn_arg, fn_ret>>

\* app.py:425-438
build_messages ==
    /\ pc = "messages"
    /\ LET r == conversation_messages(enhanced_prompt,
                                      Get(data.history, [kind |-> "list", items |-> <<>>]),
                                      user_message)
       IN  IF r.raised
           THEN /\ exc' = <<r.error>>
                /\ pc' = "except"
                /\ UNCHANGED messages
           ELSE /\ messages' = r.value
                /\ pc' = "model"
                /\ UNCHANGED exc
    /\ UNCHANGED <<config, azure_client, db_connection, data, user_message,
                   enhanced_prompt, response, calls, db_answer, model_answer,
                   fn_arg, fn_ret>>

\* app.py:441-457: the model call answers out.
call_model(out) ==
    /\ pc = "model"
    /\ model_answer' = out
    /\ IF out.kind = "ok"
       THEN /\ response' = ChatResult(out.content, "azure_openai", AbsentStr)
            /\ calls' = [calls EXCEPT !.model = @ + 1]
            /\ pc' = "done"
            /\ UNCHANGED exc
       ELSE /\ exc' = <<IF out.kind = "no_choices" THEN IndexError_choices ELSE out.error>>
            /\ calls' = [calls EXCEPT !.model = @ + 1, !.model_failed = @ + 1]
            /\ pc' = "except"
            /\ UNCHANGED response
    /\ UNCHANGED <<config, azure_client, db_connection, data, user_message,
                   enhanced_prompt, messages, db_answer, fn_arg, fn_ret>>

\* app.py:459-467, and 477-479 when the fallback itself raises.
fallback ==
    /\ pc = "except"
    /\ calls' = [calls EXCEPT !.mock = @ + 1]
    /\ response' = mock_result(get_mock_response(config, user_message),
                               "mock_fallback", Str(exc))
    /\ pc' = "done"
    /\ UNCHANGED <<config, azure_client, db_connection, data, user_message,
                   enhanced_prompt, messages, exc, db_answer, model_answer,
                   fn_arg, fn_ret>>

-----------------------------------------------------------------------------
(* Inputs and collaborators.                                               *)

\* Longest conversation history of a request.
MaxHist == 11

ServiceNames ==
    << <<"Web Development">>, <<"AI & Machine Learning">>, <<"Azure Cloud Solutions">>,
       <<"SharePoint & Microsoft 365">>, <<"Mobile Development">>, <<"IT Consulting">> >>

BasePrompt == <<"You are Zoota, the assistant of OrkinosAI.">>

KnowledgeBases ==
    {AbsentKB, NullKB}
      \cup { KB("dict", sv, w) :
                sv \in {AbsentList, NullList, List(<<>>), List(Take(ServiceNames, 2)),
                        List(ServiceNames)},
                w \in {AbsentStr, Str(<<"https://example.org">>)} }

\* What json.load can have produced from appsettings.json, and no configuration.
Configs ==
    {NoConfig, Config(AbsentZoota), Config(NullZoota)}
      \cup { Config(Zoota("dict", Str(BasePrompt), kb)) : kb \in KnowledgeBases }
      \cup { Config(Zoota("dict", sp, KB("dict", List(Take(ServiceNames, 2)), AbsentStr))) :
                sp \in {AbsentStr, NullStr} }

\* The configurations the service is started with.
ChatConfigs ==
    { NoConfig, Config(NullZoota),
      Config(Zoota("dict", Str(BasePrompt),
                   KB("dict", List(Take(ServiceNames, 2)), Str(<<"https://example.org">>)))),
      Config(Zoota("dict", Str(BasePrompt), NullKB)),
      Config(Zoota("dict", Str(BasePrompt), KB("dict", NullList, AbsentStr))),
      Config(Zoota("dict", NullStr, KB("dict", List(Take(ServiceNames, 2)), AbsentStr))),
      Config(Zoota("dict", AbsentStr, KB("dict", List(ServiceNames), AbsentStr))) }

PageRow == [title |-> <<"Home">>, content |-> <<"Welcome">>, url |-> <<"/">>,
            description |-> <<>>]
ProfileRow == [full_name |-> <<"A. Founder">>, headline |-> <<"CEO">>, summary |-> <<>>,
               experience |-> <<"10 years">>, skills |-> <<"Azure">>,
               location |-> <<"London">>]
FactRow(content_null) ==
    [category |-> <<"faq">>, content |-> IF content_null THEN <<>> ELSE <<"Open 9-5">>,
     source |-> <<"manual">>, content_null |-> content_null]

DbAnswer(raises, pages, profile, facts) ==
    [raises |-> raises, pages |-> pages, profile |-> profile, facts |-> facts]
NoDbAnswer == DbAnswer(0, <<>>, <<>>, <<>>)

DbAnswers ==
    { DbAnswer(r, <<PageRow>>, <<>>, <<>>) : r \in {1, 3} }
      \cup { DbAnswer(0, <<>>, <<>>, <<>>),
             DbAnswer(0, <<PageRow>>, <<>>, <<>>),
             DbAnswer(0, <<PageRow, PageRow>>, <<ProfileRow>>, <<FactRow(FALSE)>>),
             DbAnswer(0, <<PageRow>>, <<>>, <<FactRow(TRUE)>>) }

ModelAnswer(kind, content, error) == [kind |-> kind, content |-> content, error |-> error]
NoModelAnswer == ModelAnswer("none", AbsentStr, "")

\* A completion with text, with empty text, with no text (content None), with
\* no choices; and a call that raises.
ModelAnswers ==
    { ModelAnswer("ok", Str(<<"Here is what the model says.">>), ""),
      ModelAnswer("ok", Str(<<>>), ""),
      ModelAnswer("ok", NullStr, ""),
      ModelAnswer("no_choices", AbsentStr, ""),
      ModelAnswer("raises", AbsentStr, "Connection error.") }

Entry(i) ==
    [kind |-> "dict",
     role |-> Str(IF i % 2 = 1 THEN <<"user">> ELSE <<"assistant">>),
     content |-> Str(<<"turn ", ToString(i)>>)]
\* an entry with neither role nor content, and one that is no object
BareEntry  == [kind |-> "dict", role |-> AbsentStr, content |-> AbsentStr]
OtherEntry == [kind |-> "other", role |-> AbsentStr, content |-> AbsentStr]

History(n, k, entry) ==
    [kind |-> "list", items |-> [i \in 1..n |-> IF i = k THEN entry ELSE Entry(i)]]

Histories ==
    {AbsentHistory, NullHistory, NumberHistory}
      \cup { History(n, 0, BareEntry) : n \in 0..MaxHist }
      \cup { History(MaxHist, k, e) : k \in {1, MaxHist - HistoryWindow + 1, MaxHist},
                                      e \in {BareEntry, OtherEntry} }

ChatMessages ==
    { <<>>,
      <<" "," ">>,
      <<"h","i">>,
      <<" ","M","e","r","h","a","b","a"," ">>,
      <<"W","h","a","t"," ","s","e","r","v","i","c","e","s"," ","d","o"," ","y","o","u"," ","o","f","f","e","r","?">>,
      <<"a","b","o","u","t"," ","u","s">>,
      <<"h","a","k","k","i_dotless","n","d","a">>,
      <<"w","h","i","c","h"," ","s","e","r","v","i","c","e">>,
      <<"s_ced">> }

Bodies ==
    { Body(m, h) : m \in {AbsentStr} \cup { Str(t) : t \in ChatMessages }, h \in Histories }

-----------------------------------------------------------------------------
(* The service: started once, then one request after the other.            *)

NoCall == [fn |-> "", text |-> <<>>]

RequestInit ==
    /\ pc = "idle"
    /\ data = NoBody
    /\ user_message = <<>>
    /\ enhanced_prompt = <<>>
    /\ messages = <<>>
    /\ exc = <<>>
    /\ response = NoResponse
    /\ calls = NoCalls
    /\ db_answer = NoDbAnswer
    /\ model_answer = NoModelAnswer

\* app.py:501-513: a client or a database handle only with a configuration.
Init ==
    /\ config \in ChatConfigs
    /\ azure_client \in BOOLEAN
    /\ db_connection \in BOOLEAN
    /\ (azure_client \/ db_connection) => config.loaded
    /\ RequestInit
    /\ fn_arg = NoCall
    /\ fn_ret = Ret(<<>>)

\* The response is sent; nothing of the request is kept.
finish ==
    /\ pc = "done"
    /\ pc' = "idle"
    /\ data' = NoBody
    /\ user_message' = <<>>
    /\ enhanced_prompt' = <<>>
    /\ messages' = <<>>
    /\ exc' = <<>>
    /\ response' = NoResponse
    /\ calls' = NoCalls
    /\ db_answer' = NoDbAnswer
    /\ model_answer' = NoModelAnswer
    /\ UNCHANGED <<config, azure_client, db_connection, fn_arg, fn_ret>>

Next ==
    \/ \E body \in Bodies : chat_reject(body)
    \/ \E body \in Bodies : chat_mock(body)
    \/ \E body \in Bodies : chat_begin(body)
    \/ \E db \in DbAnswers : build_prompt(db)
    \/ build_messages
    \/ \E out \in ModelAnswers : call_model(out)
    \/ fallback
    \/ finish

Spec == Init /\ [][Next]_vars

-----------------------------------------------------------------------------
(* Direct calls of the pure functions, one specification per function.     *)

RECURSIVE Concats(_, _)
\* the texts made of at most n pieces
Concats(pieces, n) ==
    IF n = 0 THEN {<<>>}
    ELSE LET shorter == Concats(pieces, n - 1)
         IN  shorter \cup { t \o piece : t \in shorter, piece \in pieces }

DetectPieces ==
    { <<" ">>,
      <<"a">>,
      <<"s_ced">>,
      <<"S_CED">>,
      <<"I_DOT">>,
      <<"i_dotless">>,
      <<"!">>,
      <<"h","i">>,
      <<"m","e","r","h","a","b","a">>,
      <<"g","e","l","m","i","s","i","n","i","z">> }

DetectInputs == Concats(DetectPieces, MaxPieces)

FunctionInit ==
    /\ azure_client = FALSE
    /\ RequestInit
    /\ fn_arg = NoCall

chat_unchanged ==
    UNCHANGED <<config, azure_client, db_connection, pc, data, user_message,
                enhanced_prompt, messages, exc, response, calls, db_answer,
                model_answer>>

InitDetect ==
    /\ config = NoConfig
    /\ db_connection = FALSE
    /\ FunctionInit
    /\ fn_ret = ""

detect(text) ==
    /\ fn_arg = NoCall
    /\ fn_arg' = [fn |-> "detect_language", text |-> text]
    /\ fn_ret' = detect_language(text)
    /\ chat_unchanged

NextDetect == \E text \in DetectInputs : detect(text)

SpecDetect == InitDetect /\ [][NextDetect]_vars

\* Longest input of get_mock_response, in words of MockWords.
MaxWords == 2

MockWords ==
    { <<"h","e","l","l","o">>,
      <<"a","b","o","u","t">>,
      <<"s","e","r","v","i","c","e">>,
      <<"w","e","b"," ","s","i","t","e">>,
      <<"a","i">>,
      <<"c","l","o","u","d">>,
      <<"m","3","6","5">>,
      <<"c","o","n","t","a","c","t">>,
      <<"m","e","r","h","a","b","a">>,
      <<"h","a","k","k","i_dotless","n","d","a">>,
      <<"h","i","z","m","e","t">>,
      <<"b","u","l","u","t">>,
      <<"t","e","l","e","f","o","n">>,
      <<"n","e","d","i","r">>,
      <<"x","y","z">>,
      <<"s_ced">> }

RECURSIVE Phrases(_, _)
\* the phrases of 1 to n words, separated by single spaces
Phrases(words, n) ==
    IF n = 1 THEN words
    ELSE LET shorter == Phrases(words, n - 1)
         IN  shorter \cup { t \o <<" ">> \o word : t \in shorter, word \in words }

MockInputs == Phrases(MockWords, MaxWords)

InitMock ==
    /\ config \in Configs
    /\ db_connection = FALSE
    /\ FunctionInit
    /\ fn_ret = Ret(<<>>)

mock(message) ==
    /\ fn_arg = NoCall
    /\ fn_arg' = [fn |-> "get_mock_response", text |-> message]
    /\ fn_ret' = get_mock_response(config, message)
    /\ chat_unchanged

NextMock == \E message \in MockInputs : mock(message)

SpecMock == InitMock /\ [][NextMock]_vars

ComposeMessages ==
    {NoMessage, Str(<<>>)} \cup { Str(t) : t \in ChatMessages \ {<<>>} }

InitCompose ==
    /\ config \in Configs
    /\ db_connection \in BOOLEAN
    /\ db_connection => config.loaded
    /\ FunctionInit
    /\ fn_ret = Ret(<<>>)

compose(message, db) ==
    /\ fn_arg = NoCall
    /\ fn_arg' = [fn |-> "build_enhanced_system_prompt", message |-> message, db |-> db]
    /\ fn_ret' = build_enhanced_system_prompt(config, message, db)
    /\ chat_unchanged

NextCompose == \E message \in ComposeMessages, db \in DbAnswers : compose(message, db)

SpecCompose == InitCompose /\ [][NextCompose]_vars

-----------------------------------------------------------------------------
(* Properties.                                                             *)

\* a string with at least one character
NonEmptyText(t) == \E i \in 1..Len(t) : t[i] # ""

\* a string that is empty or made of whitespace only
Blank(t) == \A i \in 1..Len(t) : t[i] \in Whitespace

Sources == {"azure_openai", "mock_fallback", "mock"}

\* the request has been answered and its message was not blank
Validated == pc = "done" /\ data.message.kind = "str" /\ ~Blank(data.message.text)

\* C1: every request whose message is not empty after trimming ends in a
\* success response with a non-empty message text and one of the three source
\* tags, never in an error response.
C1_AlwaysChatResult ==
    Validated =>
        /\ response.status = 200
        /\ response.message.kind = "str"
        /\ NonEmptyText(response.message.text)
        /\ response.source \in Sources

\* C2: a request whose message is empty, whitespace only or missing is
\* rejected with 400 'Message is required', and neither the database nor the
\* model nor the canned response engine is invoked for it.
C2_BlankRejected ==
    (pc = "done" /\ (data.message.kind = "absent" \/ Blank(data.message.text))) =>
        /\ response = ErrorResponse(400, "Message is required")
        /\ calls = NoCalls

C2_Witness ==
    /\ pc = "done"
    /\ azure_client
    /\ data.message = Str(<<" ", " ">>)
    /\ response.status = 400

\* C3: without a model client every validated request returns the canned
\* response for its message, tagged 'mock', without an error field, and neither
\* the model nor the database is invoked.
C3_MockWithoutClient ==
    (Validated /\ ~azure_client) =>
        /\ response.status = 200
        /\ response.source = "mock"
        /\ response.error = AbsentStr
        /\ response.message = Str(get_mock_response(config, user_message).value)
        /\ NonEmptyText(response.message.text)
        /\ calls.db = 0
        /\ calls.model = 0

\* C4: when the model call fails, the request returns the canned response for
\* the same message, tagged 'mock_fallback', with the error field holding the
\* description of the failure; the failure is not propagated.
C4_FallbackAfterModelError ==
    (pc = "done" /\ calls.model_failed > 0) =>
        /\ response.status = 200
        /\ response.source = "mock_fallback"
        /\ response.message = Str(get_mock_response(config, user_message).value)
        /\ NonEmptyText(response.message.text)
        /\ response.error =
              Str(<<IF model_answer.kind = "raises" THEN model_answer.error
                    ELSE IndexError_choices>>)

\* the entries of the request's history, none when it is missing or null
HistoryItems == data.history.items

Min(a, b) == IF a < b THEN a ELSE b

\* C5: the sequence handed to the model is the system message with the
\* composed prompt, then the last min(n, 10) of the n history entries in their
\* order, then the current user message: 2 + min(n, 10) elements.
C5_LastTenForwarded ==
    calls.model > 0 =>
        LET n == Len(HistoryItems)
            k == Min(n, 10)
        IN  /\ Len(messages) = 2 + k
            /\ messages[1] = ChatMessage(<<"system">>, enhanced_prompt)
            /\ \A i \in 1..k : messages[1 + i] = forwarded(HistoryItems[n - k + i])
            /\ messages[2 + k] = ChatMessage(<<"user">>, user_message)

C5_Witness ==
    /\ calls.model > 0
    /\ Len(HistoryItems) > 10
    /\ Len(messages) = 12
    /\ messages[2].content = <<"turn ", ToString(Len(HistoryItems) - 9)>>

\* the database was asked for this request and gave no data: no handle, a
\* failing query or row, or no rows at all
DbGaveNothing ==
    /\ calls.db > 0
    /\ \/ ~db_connection
       \/ db_answer.raises # 0
       \/ \E i \in 1..Len(db_answer.facts) : db_answer.facts[i].content_null
       \/ db_answer.pages = <<>> /\ db_answer.profile = <<>> /\ db_answer.facts = <<>>

\* the base instructions of the configuration ('' when they are missing)
BaseInstructions == Get(zoota_config_of(config).SystemPrompt, Str(<<>>)).text

\* C6: a database that is absent, fails or has no rows never aborts the
\* request: the prompt is the configured base and the language directive only,
\* the handler is never entered with a database error, and when the model call
\* succeeds its text is returned tagged 'azure_openai'.
C6_DatabaseFailureAbsorbed ==
    DbGaveNothing =>
        /\ pc = "except" => /\ exc \notin {<<"pyodbc.Error">>, <<TypeError_subscript>>}
                            /\ (calls.model = 0 =>
                                  exc \in {<<TypeError_slice>>, <<AttributeError_msg>>})
        /\ pc \in {"messages", "model"} \/ calls.model > 0 =>
              enhanced_prompt \in { BaseInstructions \o d :
                                      d \in {TurkishDirective, EnglishDirective} }
        /\ (pc = "done" /\ model_answer.kind = "ok") =>
              response = ChatResult(model_answer.content, "azure_openai", AbsentStr)

C6_Witness ==
    /\ pc = "done"
    /\ db_connection
    /\ db_answer.raises # 0
    /\ response.source = "azure_openai"
    /\ response.message = Str(<<"Here is what the model says.">>)

HasTurkishChar(t) ==
    \E i \in 1..Len(t) :
        t[i] \in {"c_ced", "g_breve", "i_dotless", "o_uml", "s_ced", "u_uml"}

DetectCalled == fn_arg.fn = "detect_language"

\* C7 as stated: detect returns Turkish for every string with one of the six
\* Turkish letters, whatever its length.
C7_TurkishCharAnyLength ==
    (DetectCalled /\ HasTurkishChar(fn_arg.text)) => fn_ret = "tr"

\* C7: detect returns Turkish for every string with one of the six Turkish
\* letters whose lower-cased, trimmed form has at least 3 characters.
C7_TurkishCharLongEnough ==
    (DetectCalled /\ HasTurkishChar(fn_arg.text) /\ Len(Strip(Lower(fn_arg.text))) >= 3)
        => fn_ret = "tr"

C7_Witness ==
    /\ DetectCalled
    /\ fn_arg.text = <<"h","i","!","s_ced">>
    /\ fn_ret = "tr"

\* C8: detect returns English for every string whose lower-cased, trimmed
\* form has fewer than 3 characters, before any other rule applies, and it
\* returns English or Turkish for every string.
C8_ShortIsEnglish ==
    DetectCalled =>
        /\ fn_ret \in {"en", "tr"}
        /\ Len(Strip(Lower(fn_arg.text))) < 3 => fn_ret = "en"

C8_Witness ==
    /\ DetectCalled
    /\ fn_arg.text = <<" ", "s_ced", "i_dotless">>
    /\ fn_ret = "en"

\* C9: the canned response engine returns a non-empty string, without
\* raising, for every non-empty message and every loaded configuration.
C9_MockNeverFails ==
    (fn_arg.fn = "get_mock_response" /\ fn_arg.text # <<>>) =>
        /\ ~fn_ret.raised
        /\ NonEmptyText(fn_ret.value)

StartsWith(t, prefix) == Len(prefix) <= Len(t) /\ SubSeq(t, 1, Len(prefix)) = prefix

\* the directive the claim expects for a message
ExpectedDirective(message) ==
    IF message.kind # "str" \/ message.text = <<>> THEN DefaultDirective
    ELSE IF detect_language(message.text) = "tr" THEN TurkishDirective
    ELSE EnglishDirective

\* C10: the composed prompt starts with the configured base instructions;
\* without context it is the base instructions followed by the one directive
\* for the message's language (the default directive without a message); with
\* context it contains the base instructions and the whole context text.
C10_PromptComposition ==
    (fn_arg.fn = "build_enhanced_system_prompt" /\ ~fn_ret.raised) =>
        LET context == get_training_data_from_db(fn_arg.db).value
        IN  /\ StartsWith(fn_ret.value, BaseInstructions)
            /\ Contains(fn_ret.value, BaseInstructions)
            /\ context = <<>> =>
                  fn_ret.value = BaseInstructions \o ExpectedDirective(fn_arg.message)
            /\ context # <<>> =>
                  /\ Contains(fn_ret.value, context)
                  /\ StartsWith(fn_ret.value,
                                BaseInstructions \o ExpectedDirective(fn_arg.message))

C10_Witness ==
    /\ fn_arg.fn = "build_enhanced_system_prompt"
    /\ ~fn_ret.raised
    /\ BaseInstructions = BasePrompt
    /\ fn_arg.message = Str(<<" ","M","e","r","h","a","b","a"," ">>)
    /\ db_connection
    /\ fn_arg.db.raises = 0 /\ fn_arg.db.facts # <<>>
    /\ Contains(fn_ret.value, <<"[", "faq", "] ", "Open 9-5">>)
    /\ fn_ret.value = BasePrompt \o TurkishDirective \o TrainedOn
                        \o get_training_data_from_db(fn_arg.db).value \o UseThis


\* the service names and the website of the configuration (none when the
\* entry is missing or null)
ConfiguredServices == zoota_config_of(config).KnowledgeBase.Services.items
ConfiguredWebsite ==
    LET website == zoota_config_of(config).KnowledgeBase.Website
    IN  IF website.kind = "str" THEN website.text ELSE DefaultWebsite

\* the words of a message, lower-cased
WordsOf(message) == FindWords(Lower(message))

\* C11: without a model client, a message detected as English that contains
\* 'service' and has none of hello, hi, hey, orkinosai, about among its words
\* gets the English service listing with every configured service as a
\* bullet, in order, tagged 'mock'.
C11_EnglishServiceListing ==
    ( /\ Validated
      /\ ~azure_client
      /\ detect_language(user_message) = "en"
      /\ Contains(Lower(user_message), <<"s","e","r","v","i","c","e">>)
      /\ WordsOf(user_message) \cap (en_greeting \cup en_about) = {} )
    => response = ChatResult(Str(EnServicesHead \o Bullets(ConfiguredServices)
                                    \o EnServicesTail),
                             "mock", AbsentStr)


\* a keyword group of the claim: whether it matches, and its answer
Group(hit, answer) == [hit |-> hit, answer |-> answer]

\* the answer of the first group that matches, else the default answer
FirstMatch(groups, default) ==
    IF \E i \in 1..Len(groups) : groups[i].hit
    THEN groups[CHOOSE i \in 1..Len(groups) :
                    groups[i].hit /\ \A j \in 1..(i - 1) : ~groups[j].hit].answer
    ELSE default

FirstFive(services) == SubSeq(services, 1, Min(Len(services), 5))

\* greeting, about, services, web development, AI/ML, cloud, collaboration
\* platform, contact; the web group matches on 'web' with 'develop' or 'site'
EnglishGroups(m) ==
    << Group(ContainsAny(m, en_greeting), EnGreeting),
       Group(ContainsAny(m, en_about),
             EnAboutHead \o Bullets(FirstFive(ConfiguredServices)) \o EnAboutTail),
       Group(ContainsAny(m, en_services),
             EnServicesHead \o Bullets(ConfiguredServices) \o EnServicesTail),
       Group(ContainsAny(m, en_web) /\ ContainsAny(m, en_web_kind), EnWeb),
       Group(ContainsAny(m, en_ai), EnAI),
       Group(ContainsAny(m, en_cloud), EnCloud),
       Group(ContainsAny(m, en_sharepoint), EnSharePoint),
       Group(ContainsAny(m, en_contact),
             EnContactHead \o ConfiguredWebsite \o EnContactTail) >>

\* the Turkish table has no web and no collaboration-platform keywords
TurkishGroups(m) ==
    << Group(ContainsAny(m, tr_greeting), TrGreeting),
       Group(ContainsAny(m, tr_about),
             TrAboutHead \o Bullets(FirstFive(ConfiguredServices)) \o TrAboutTail),
       Group(ContainsAny(m, tr_services),
             TrServicesHead \o Bullets(ConfiguredServices) \o TrServicesTail),
       Group(ContainsAny(m, tr_ai), TrAI),
       Group(ContainsAny(m, tr_cloud), TrCloud),
       Group(ContainsAny(m, tr_contact),
             TrContactHead \o ConfiguredWebsite \o TrContactTail) >>

\* C12: in the detected language the engine returns the answer of the first
\* group, in the fixed order, with a keyword in the lower-cased message, and
\* the default answer only when no group has one; the about answer lists at
\* most the first 5 configured services, the service listing all of them.
C12_FirstMatchOrder ==
    fn_arg.fn = "get_mock_response" =>
        /\ ~fn_ret.raised
        /\ fn_ret.value =
              IF detect_language(fn_arg.text) = "tr"
              THEN FirstMatch(TurkishGroups(Lower(fn_arg.text)), TrDefault)
              ELSE FirstMatch(EnglishGroups(Lower(fn_arg.text)), EnDefault)


\* C13: a result tagged 'mock_fallback' is produced only after the model was
\* called for this request and the call failed, a result tagged
\* 'azure_openai' only after it was called exactly once and succeeded; a
\* failure before the model call never yields a 'mock_fallback' result.
C13_SourceTagReflectsPath ==
    /\ response.source = "mock_fallback" =>
          calls.model = 1 /\ calls.model_failed = 1
    /\ response.source = "azure_openai" =>
          calls.model = 1 /\ calls.model_failed = 0 /\ model_answer.kind = "ok"

=============================================================================
